---- MODULE Spec2Model ----
(***************************************************************************)
(* Model of zfs.py: a one-shot collector that runs zpool/zfs commands,     *)
(* reads kernel stat pseudo-files, parses the text and prints one JSON     *)
(* document.  Text is modelled as text: a field is a string, int(),        *)
(* str.isdigit(), str.strip() and re.split() work on its characters.       *)
(***************************************************************************)
EXTENDS Integers, Sequences, FiniteSets, TLC

VARIABLES
    pc,           \* position in the module-level code (lines 171-181)
    exc,          \* the uncaught exception that ended the run, or "none"
    scrub,        \* module-level scrub (line 171)
    vdev_errors,  \* module-level vdev_errors (line 171)
    r,            \* the dict display of lines 173-179, entry by entry
    stdout,       \* the documents print() has written (line 181)
    status_r,     \* pool_status's local r: the rows run() gave it
    vdev_r,       \* vdev_list's local r
    pool_r,       \* pool_list's local r
    io_env,       \* the stat files each pool_io_stats call found
    zfs_r,        \* zfs_list's local r
    arc_f,        \* the arcstats file arc_stats read
    arc_r,        \* arc_stats's local r (line 145)
    slab_f,       \* the slab file slab_usage read
    opened,       \* every path open() was called with, in order
    calls         \* number of invocations of each function

vars == <<pc, exc, scrub, vdev_errors, r, stdout, status_r, vdev_r, pool_r,
          io_env, zfs_r, arc_f, arc_r, slab_f, opened, calls>>

(***************************************************************************)
(* Bounds of the modelled environment.                                     *)
(***************************************************************************)
MaxStatusLines == 3
MaxVdevLines == 2
MaxPoolLines == 2
MaxCounter == 2
MaxSlabLines == 2

(***************************************************************************)
(* Python strings.                                                         *)
(***************************************************************************)
Char(s, i) == SubSeq(s, i, i)

\* the characters \s matches and str.strip() removes (of those modelled)
whitespace == {" ", "\t", "\n"}

\* characters int() reads as decimal digits
AsciiDigits == {"0", "1", "2", "3", "4", "5", "6", "7", "8", "9"}

\* characters str.isdigit() accepts and int() rejects (superscript two, U+00B2)
NonDecimalDigits == {"²"}

DigitVal(c) ==
    CASE c = "0" -> 0 [] c = "1" -> 1 [] c = "2" -> 2 [] c = "3" -> 3
      [] c = "4" -> 4 [] c = "5" -> 5 [] c = "6" -> 6 [] c = "7" -> 7
      [] c = "8" -> 8 [] c = "9" -> 9

RECURSIVE lstrip(_)
lstrip(s) == IF Len(s) > 0 /\ Char(s, 1) \in whitespace
             THEN lstrip(SubSeq(s, 2, Len(s))) ELSE s

RECURSIVE rstrip(_)
rstrip(s) == IF Len(s) > 0 /\ Char(s, Len(s)) \in whitespace
             THEN rstrip(SubSeq(s, 1, Len(s) - 1)) ELSE s

strip(s) == rstrip(lstrip(s))

startswith(s, prefix) ==
    Len(s) >= Len(prefix) /\ SubSeq(s, 1, Len(prefix)) = prefix

isdigit(s) ==
    Len(s) > 0 /\ \A i \in 1..Len(s) : Char(s, i) \in AsciiDigits \cup NonDecimalDigits

AllDecimal(s) == Len(s) > 0 /\ \A i \in 1..Len(s) : Char(s, i) \in AsciiDigits

Unsigned(s) == IF Len(s) > 0 /\ Char(s, 1) \in {"+", "-"}
               THEN SubSeq(s, 2, Len(s)) ELSE s

RECURSIVE DecVal(_)
DecVal(s) == IF Len(s) = 0 THEN 0
             ELSE 10 * DecVal(SubSeq(s, 1, Len(s) - 1)) + DigitVal(Char(s, Len(s)))

\* int(s) raises ValueError: s is not [ws] [sign] digits [ws]
int_raises(s) == ~AllDecimal(Unsigned(strip(s)))

\* int(s) where it does not raise
int(s) == LET t == strip(s)
          IN IF Len(t) > 0 /\ Char(t, 1) = "-" THEN 0 - DecVal(Unsigned(t))
             ELSE DecVal(Unsigned(t))

DotAt(s) == {i \in 1..Len(s) : Char(s, i) = "."}

\* float(s) raises ValueError: s is not [sign] digits [. digits] with a digit
float_raises(s) ==
    LET t == Unsigned(strip(s))
    IN ~(/\ Cardinality(DotAt(t)) <= 1
         /\ \A i \in 1..Len(t) : Char(t, i) \in AsciiDigits \cup {"."}
         /\ \E i \in 1..Len(t) : Char(t, i) \in AsciiDigits)

Pow10(n) == IF n = 0 THEN 1 ELSE IF n = 1 THEN 10 ELSE IF n = 2 THEN 100 ELSE 1000

\* float(s) where it does not raise, as the exact fraction num/den
float(s) ==
    LET t == strip(s)
        u == Unsigned(t)
        d == IF DotAt(u) = {} THEN Len(u) + 1 ELSE CHOOSE i \in DotAt(u) : TRUE
        digits == SubSeq(u, 1, d - 1) \o SubSeq(u, d + 1, Len(u))
        sign == IF Len(t) > 0 /\ Char(t, 1) = "-" THEN 0 - 1 ELSE 1
        places == IF DotAt(u) = {} THEN 0 ELSE Len(u) - d
    IN [num |-> sign * DecVal(digits), den |-> Pow10(places)]

RECURSIVE join(_, _)
join(sep, parts) ==
    IF Len(parts) = 0 THEN ""
    ELSE IF Len(parts) = 1 THEN parts[1]
    ELSE parts[1] \o sep \o join(sep, Tail(parts))

\* l[a:b] for 0 <= a <= b
slice(l, a, b) ==
    LET hi == IF b < Len(l) THEN b ELSE Len(l)
    IN IF a >= hi THEN <<>> ELSE SubSeq(l, a + 1, hi)

RECURSIVE skip_run(_, _)
skip_run(s, i) == IF i <= Len(s) /\ Char(s, i) \in whitespace
                  THEN skip_run(s, i + 1) ELSE i

\* the pieces of s from position i on; the piece being read began at start
RECURSIVE re_split_from(_, _, _, _, _)
re_split_from(split, s, i, start, acc) ==
    IF i > Len(s) THEN Append(acc, SubSeq(s, start, Len(s)))
    ELSE IF split = "\\s+" /\ Char(s, i) \in whitespace
    THEN re_split_from(split, s, skip_run(s, i), skip_run(s, i),
                       Append(acc, SubSeq(s, start, i - 1)))
    ELSE IF split = "\\t" /\ Char(s, i) = "\t"
    THEN re_split_from(split, s, i + 1, i + 1, Append(acc, SubSeq(s, start, i - 1)))
    ELSE re_split_from(split, s, i + 1, start, acc)

\* re.split(split, s) for the two patterns the program uses
re_split(split, s) == re_split_from(split, s, 1, 1, <<>>)

(***************************************************************************)
(* Python dicts as functions.                                              *)
(***************************************************************************)
EmptyDict == [k \in {} |-> 0]

Put(d, k, v) == [x \in (DOMAIN d) \cup {k} |-> IF x = k THEN v ELSE d[x]]

(***************************************************************************)
(* run (lines 13-20): a command's output is the list of its lines; a       *)
(* command that cannot be run or exits non-zero has ok = FALSE.            *)
(***************************************************************************)
NonBlank(x) == strip(x) # ""

run(lines, split) ==
    LET kept == SelectSeq(lines, NonBlank)
    IN [i \in 1..Len(kept) |-> re_split(split, strip(kept[i]))]

(***************************************************************************)
(* read_file (lines 24-29): a file is the list of its lines, each with its *)
(* newline; readline() past the end reads nothing.                         *)
(***************************************************************************)
read_file(lines, skip) ==
    LET rest == IF skip >= Len(lines) THEN <<>> ELSE SubSeq(lines, skip + 1, Len(lines))
    IN [i \in 1..Len(rest) |-> re_split("\\s+", rest[i])]

(***************************************************************************)
(* pool_status (lines 65-100).                                             *)
(***************************************************************************)
\* any "scan:" row taken for a scrub in progress
is_scrub_unconditional(l) == l[1] = "scan:"

\* line 79
is_scrub_in_progress(l) ==
    l[1] = "scan:" /\ join(" ", slice(l, 1, 4)) = "scrub in progress"

\* lines 72-80: the forward pass from row i on
RECURSIVE scrub_pass(_, _, _, _)
scrub_pass(rows, i, pool, acc) ==
    IF i > Len(rows) THEN [exc |-> "none", scrub |-> acc]
    ELSE LET l == rows[i]
         IN IF l[1] = "pool:" /\ Len(l) < 2
            THEN [exc |-> "IndexError", scrub |-> EmptyDict]
            ELSE LET pool1 == IF l[1] = "pool:" THEN l[2] ELSE pool
                     acc1 == IF l[1] = "pool:" THEN Put(acc, pool1, FALSE) ELSE acc
                     acc2 == IF is_scrub_in_progress(l) THEN Put(acc1, pool1, TRUE) ELSE acc1
                 IN scrub_pass(rows, i + 1, pool1, acc2)

\* lines 94-98
NoErrors == [read |-> 0, write |-> 0, cksum |-> 0]

\* lines 87-98
error_record(x) ==
    IF int_raises(x[3]) \/ int_raises(x[4]) \/ int_raises(x[5])
    THEN NoErrors
    ELSE [read |-> int(x[3]), write |-> int(x[4]), cksum |-> int(x[5])]

\* line 84
is_device_row(x) == ~(Len(x) < 5 \/ ~startswith(x[1], "/"))

\* lines 82-98
RECURSIVE errors_pass(_, _, _)
errors_pass(rows, i, acc) ==
    IF i > Len(rows) THEN acc
    ELSE IF ~is_device_row(rows[i]) THEN errors_pass(rows, i + 1, acc)
    ELSE errors_pass(rows, i + 1, Put(acc, rows[i][1], error_record(rows[i])))

pool_status(out) ==
    IF ~out.ok
    THEN [exc |-> "CalledProcessError", r |-> <<>>, scrub |-> EmptyDict,
          vdev_errors |-> EmptyDict]
    ELSE LET rows == run(out.lines, "\\s+")
             fwd == scrub_pass(rows, 1, "", EmptyDict)
         IN IF fwd.exc # "none"
            THEN [exc |-> fwd.exc, r |-> rows, scrub |-> EmptyDict,
                  vdev_errors |-> EmptyDict]
            ELSE [exc |-> "none", r |-> rows, scrub |-> fwd.scrub,
                  vdev_errors |-> errors_pass(rows, 1, EmptyDict)]

(***************************************************************************)
(* Helpers shared by the listing builders: the first exception raised by   *)
(* expressions evaluated in order, and x[k] for Python's 0-based k.        *)
(***************************************************************************)
RECURSIVE FirstExc(_)
FirstExc(es) == IF Len(es) = 0 THEN "none"
                ELSE IF es[1] # "none" THEN es[1] ELSE FirstExc(Tail(es))

\* int(x[k])
int_exc(x, k) == IF Len(x) < k + 1 THEN "IndexError"
                 ELSE IF int_raises(x[k + 1]) THEN "ValueError" ELSE "none"

\* float(x[k])
float_exc(x, k) == IF Len(x) < k + 1 THEN "IndexError"
                   ELSE IF float_raises(x[k + 1]) THEN "ValueError" ELSE "none"

\* int(x[k]) if x[k].isdigit() else 0
digit_exc(x, k) == IF Len(x) < k + 1 THEN "IndexError"
                   ELSE IF isdigit(x[k + 1]) /\ int_raises(x[k + 1]) THEN "ValueError"
                   ELSE "none"

digit_or_zero(x, k) == IF isdigit(x[k + 1]) THEN int(x[k + 1]) ELSE 0

index_exc(x, k) == IF Len(x) < k + 1 THEN "IndexError" ELSE "none"

key_exc(d, k) == IF k \in DOMAIN d THEN "none" ELSE "KeyError"

\* int(b) of a bool
bool_int(b) == IF b THEN 1 ELSE 0

(***************************************************************************)
(* vdev_list (lines 103-119).                                              *)
(***************************************************************************)
\* the health string read one field further
vdev_online_next_field(x) == bool_int(Len(x) >= 11 /\ x[11] = "ONLINE")

\* line 117
vdev_online(x) == bool_int(x[10] = "ONLINE")

\* errors.get(key, default) in place of errors[key]
errors_get_default(errors, key) ==
    [exc |-> "none", val |-> IF key \in DOMAIN errors THEN errors[key] ELSE NoErrors]

\* line 118: errors[x[0]]
errors_lookup(errors, key) ==
    IF key \in DOMAIN errors THEN [exc |-> "none", val |-> errors[key]]
    ELSE [exc |-> "KeyError", val |-> NoErrors]

\* lines 111-118, in evaluation order
vdev_exc(errors, x) ==
    FirstExc(<<digit_exc(x, 1), digit_exc(x, 2), digit_exc(x, 3), digit_exc(x, 6),
               digit_exc(x, 7), index_exc(x, 9), errors_lookup(errors, x[1]).exc>>)

vdev_record(errors, x) ==
    [name |-> x[1],
     size |-> digit_or_zero(x, 1),
     alloc |-> digit_or_zero(x, 2),
     free |-> digit_or_zero(x, 3),
     frag |-> digit_or_zero(x, 6),
     usage |-> digit_or_zero(x, 7),
     online |-> vdev_online(x),
     errors |-> errors_lookup(errors, x[1]).val]

\* lines 110-119: the comprehension from row i on
RECURSIVE vdev_fold(_, _, _, _)
vdev_fold(errors, rows, i, acc) ==
    IF i > Len(rows) THEN [exc |-> "none", val |-> acc]
    ELSE LET x == rows[i]
         IN IF ~startswith(x[1], "/") THEN vdev_fold(errors, rows, i + 1, acc)
            ELSE IF vdev_exc(errors, x) # "none"
            THEN [exc |-> vdev_exc(errors, x), val |-> EmptyDict]
            ELSE vdev_fold(errors, rows, i + 1, Put(acc, x[1], vdev_record(errors, x)))

vdev_list(errors, out) ==
    IF ~out.ok THEN [exc |-> "CalledProcessError", r |-> <<>>, val |-> EmptyDict]
    ELSE LET rows == run(out.lines, "\\t")
             res == vdev_fold(errors, rows, 1, EmptyDict)
         IN [exc |-> res.exc, r |-> rows, val |-> res.val]

(***************************************************************************)
(* pool_io_stats (lines 33-39).  files.iostats and files.io are the two    *)
(* stat files of the pool as the call finds them.                          *)
(***************************************************************************)
kstat_path(pool, name) == "/proc/spl/kstat/zfs/" \o pool \o "/" \o name

Min(a, b) == IF a < b THEN a ELSE b

\* line 39: the pairs of zip(r[0], r[1]) the comprehension keeps
kept_pairs(names, values) ==
    {i \in 1..Min(Len(names), Len(values)) : isdigit(values[i])}

\* line 39
io_dict(names, values) ==
    LET kept == kept_pairs(names, values)
    IN [k \in {names[i] : i \in kept} |->
           LET last == CHOOSE i \in kept :
                          /\ names[i] = k
                          /\ \A j \in kept : names[j] = k => j <= i
           IN int(values[last])]

\* no fallback to the legacy name
io_first_name_only(files) == [exc |-> IF files.iostats.exists THEN "none" ELSE "FileNotFoundError",
                              lines |-> files.iostats.lines, tried |-> <<"iostats">>]

\* lines 34-37: which file is read, and the open() calls made
io_read(files) ==
    IF files.iostats.exists
    THEN [exc |-> "none", lines |-> files.iostats.lines, tried |-> <<"iostats">>]
    ELSE IF files.io.exists
    THEN [exc |-> "none", lines |-> files.io.lines, tried |-> <<"iostats", "io">>]
    ELSE [exc |-> "FileNotFoundError", lines |-> <<>>, tried |-> <<"iostats", "io">>]

pool_io_stats(pool, files) ==
    LET rd == io_read(files)
        paths == [i \in 1..Len(rd.tried) |-> kstat_path(pool, rd.tried[i])]
        rows == read_file(rd.lines, 1)
    IN IF rd.exc # "none" THEN [exc |-> rd.exc, val |-> EmptyDict, opened |-> paths]
       ELSE IF Len(rows) < 2 THEN [exc |-> "IndexError", val |-> EmptyDict, opened |-> paths]
       ELSE IF \E i \in kept_pairs(rows[1], rows[2]) : int_raises(rows[2][i])
       THEN [exc |-> "ValueError", val |-> EmptyDict, opened |-> paths]
       ELSE [exc |-> "none", val |-> io_dict(rows[1], rows[2]), opened |-> paths]

(***************************************************************************)
(* pool_list (lines 43-62).  envs[i] holds the stat files the i-th row's   *)
(* pool_io_stats call finds.                                               *)
(***************************************************************************)
\* lines 52-60, in evaluation order, before the pool_io_stats call
pool_exc(scrubs, x) ==
    FirstExc(<<int_exc(x, 1), int_exc(x, 2), int_exc(x, 3), int_exc(x, 4), int_exc(x, 5),
               float_exc(x, 6), key_exc(scrubs, x[1]), index_exc(x, 7)>>)

\* line 60
pool_online(x) == bool_int(x[8] = "ONLINE")

pool_record(scrubs, x, io) ==
    [name |-> x[1],
     size |-> int(x[2]),
     alloc |-> int(x[3]),
     free |-> int(x[4]),
     frag |-> int(x[5]),
     usage |-> int(x[6]),
     dedup |-> float(x[7]),
     scrub |-> bool_int(scrubs[x[1]]),
     online |-> pool_online(x),
     io |-> io]

\* lines 51-62: the comprehension from row i on; io_calls counts the
\* pool_io_stats calls made and opened lists the open() calls
RECURSIVE pool_fold(_, _, _, _, _, _, _)
pool_fold(scrubs, rows, envs, i, acc, files_opened, io_calls) ==
    IF i > Len(rows)
    THEN [exc |-> "none", val |-> acc, opened |-> files_opened, io_calls |-> io_calls]
    ELSE LET x == rows[i]
         IN IF pool_exc(scrubs, x) # "none"
            THEN [exc |-> pool_exc(scrubs, x), val |-> EmptyDict,
                  opened |-> files_opened, io_calls |-> io_calls]
            ELSE LET io == pool_io_stats(x[1], envs[i])
                 IN IF io.exc # "none"
                    THEN [exc |-> io.exc, val |-> EmptyDict,
                          opened |-> files_opened \o io.opened, io_calls |-> io_calls + 1]
                    ELSE pool_fold(scrubs, rows, envs, i + 1,
                                   Put(acc, x[1], pool_record(scrubs, x, io.val)),
                                   files_opened \o io.opened, io_calls + 1)

pool_list(scrubs, out, envs) ==
    IF ~out.ok
    THEN [exc |-> "CalledProcessError", r |-> <<>>, val |-> EmptyDict,
          opened |-> <<>>, io_calls |-> 0]
    ELSE LET rows == run(out.lines, "\\t")
             res == pool_fold(scrubs, rows, envs, 1, EmptyDict, <<>>, 0)
         IN [exc |-> res.exc, r |-> rows, val |-> res.val,
             opened |-> res.opened, io_calls |-> res.io_calls]

(***************************************************************************)
(* zfs_list (lines 122-136).                                               *)
(***************************************************************************)
zfs_exc(x) ==
    FirstExc(<<int_exc(x, 1), int_exc(x, 2), float_exc(x, 3), int_exc(x, 4)>>)

zfs_record(x) ==
    [name |-> x[1], avail |-> int(x[2]), used |-> int(x[3]),
     compress |-> float(x[4]), referenced |-> int(x[5])]

RECURSIVE zfs_fold(_, _, _)
zfs_fold(rows, i, acc) ==
    IF i > Len(rows) THEN [exc |-> "none", val |-> acc]
    ELSE IF zfs_exc(rows[i]) # "none" THEN [exc |-> zfs_exc(rows[i]), val |-> EmptyDict]
    ELSE zfs_fold(rows, i + 1, Put(acc, rows[i][1], zfs_record(rows[i])))

zfs_list(out) ==
    IF ~out.ok THEN [exc |-> "CalledProcessError", r |-> <<>>, val |-> EmptyDict]
    ELSE LET rows == run(out.lines, "\\t")
             res == zfs_fold(rows, 1, EmptyDict)
         IN [exc |-> res.exc, r |-> rows, val |-> res.val]

(***************************************************************************)
(* slab_usage (lines 139-141).                                             *)
(***************************************************************************)
\* the list comprehension of lines 140-141 from row i on, and its sum
RECURSIVE slab_fold(_, _, _)
slab_fold(rows, i, total) ==
    IF i > Len(rows) THEN [exc |-> "none", val |-> total]
    ELSE LET x == rows[i]
         IN IF digit_exc(x, 2) # "none" THEN [exc |-> digit_exc(x, 2), val |-> 0]
            ELSE slab_fold(rows, i + 1, total + digit_or_zero(x, 2))

slab_usage(file) ==
    IF ~file.exists THEN [exc |-> "FileNotFoundError", val |-> 0]
    ELSE slab_fold(read_file(file.lines, 2), 1, 0)

(***************************************************************************)
(* arc_stats (lines 144-168).                                              *)
(***************************************************************************)
\* line 145
RECURSIVE arc_fold(_, _, _)
arc_fold(rows, i, acc) ==
    IF i > Len(rows) THEN [exc |-> "none", val |-> acc]
    ELSE IF int_exc(rows[i], 2) # "none" THEN [exc |-> int_exc(rows[i], 2), val |-> EmptyDict]
    ELSE arc_fold(rows, i + 1, Put(acc, rows[i][1], int(rows[i][3])))

\* the keys arc_stats looks up, in evaluation order (lines 147-166)
ArcKeys == <<"hits", "misses", "l2_hits", "l2_misses", "size", "hits",
             "memory_available_bytes", "arc_meta_used", "arc_meta_limit",
             "l2_size", "l2_asize", "l2_hits", "l2_read_bytes", "l2_write_bytes",
             "l2_io_error", "l2_cksum_bad">>

\* the division without the zero test
hitrate_no_guard(hit, total) == [num |-> hit * 100, den |-> total]

\* lines 153 and 162: hit / total * 100 if total else 0, as the fraction num/den
hitrate(hit, total) ==
    IF total # 0 THEN [num |-> hit * 100, den |-> total] ELSE [num |-> 0, den |-> 1]

arc_record(d) ==
    LET l1 == d["hits"] + d["misses"]
        l2 == d["l2_hits"] + d["l2_misses"]
    IN [l1 |-> [size |-> d["size"],
                hitrate |-> hitrate(d["hits"], l1),
                free |-> d["memory_available_bytes"],
                meta_used |-> d["arc_meta_used"],
                meta_limit |-> d["arc_meta_limit"]],
        l2 |-> [usage |-> d["l2_size"],
                usage_actual |-> d["l2_asize"],
                hitrate |-> hitrate(d["l2_hits"], l2),
                bytes_read |-> d["l2_read_bytes"],
                bytes_written |-> d["l2_write_bytes"],
                io_error |-> d["l2_io_error"],
                cksum_bad |-> d["l2_cksum_bad"]]]

arc_stats(file) ==
    IF ~file.exists THEN [exc |-> "FileNotFoundError", d |-> EmptyDict, val |-> EmptyDict]
    ELSE LET parsed == arc_fold(read_file(file.lines, 2), 1, EmptyDict)
         IN IF parsed.exc # "none"
            THEN [exc |-> parsed.exc, d |-> EmptyDict, val |-> EmptyDict]
            ELSE IF \E i \in 1..Len(ArcKeys) : ArcKeys[i] \notin DOMAIN parsed.val
            THEN [exc |-> "KeyError", d |-> parsed.val, val |-> EmptyDict]
            ELSE [exc |-> "none", d |-> parsed.val, val |-> arc_record(parsed.val)]

(***************************************************************************)
(* The environment: what the commands print and what the stat files hold.  *)
(***************************************************************************)
SeqsUpTo(S, n) == UNION {[1..k -> S] : k \in 0..n}

Printed(lines) == [ok |-> TRUE, lines |-> lines]
CmdFailed == [ok |-> FALSE, lines |-> <<>>]
File(lines) == [exists |-> TRUE, lines |-> lines]
NoFile == [exists |-> FALSE, lines |-> <<>>]

\* zpool status -Pp
StatusLineSet ==
    {" pool: a", " pool: b", " pool:",
     " scan: scrub in progress since", " scan: scrub repaired 0B",
     "\t/x ONLINE 3 0 7", "\t/x ONLINE 1 - 2", "\t/y ONLINE -1 0 0", "\t/y ONLINE 0 0",
     "\ta ONLINE 0 0 0"}

StatusWide == {Printed(l) : l \in SeqsUpTo(StatusLineSet, MaxStatusLines)} \cup {CmdFailed}

StatusHealthy ==
    Printed(<<"  pool: a", " state: ONLINE", "  scan: scrub in progress since Mon",
              "config:", "", "\tNAME  STATE  READ  WRITE  CKSUM", "\ta  ONLINE  0  0  0",
              "\t  /x  ONLINE  0  0  0", "\t  /y  ONLINE  0  2  0", "",
              "errors: No known data errors", "",
              "  pool: b", " state: ONLINE", "config:", "\tb  ONLINE  0  0  0">>)

StatusNarrow ==
    {StatusHealthy,
     Printed(<<"no pools available">>),
     Printed(<<"  pool: a", " state: DEGRADED", "config:", "\ta  DEGRADED  0  0  0",
               "\t  /x  ONLINE  0  0  0", "\t  /y  REMOVED">>),
     CmdFailed}

\* zpool list -PHvp: name size alloc free ckpoint expandsz frag cap dedup health [altroot]
VdevLine(path, health, rest) ==
    "\t" \o path \o "\t10\t4\t6\t-\t-\t0\t40\t-\t" \o health \o rest

VdevSummaryLine == "a\t10\t4\t6\t-\t-\t0\t40\t1.00\tONLINE\t-"

HealthSet == {"ONLINE", "DEGRADED", "online"}

VdevLineSet ==
    {VdevLine("/x", h, rest) : h \in HealthSet, rest \in {"", "\tONLINE"}}
    \cup {VdevSummaryLine, VdevLine("/y", "ONLINE", ""), VdevLine("/z", "ONLINE", ""),
          "\t/x\t10\t4\t6", "\t/x\t-\t-\t-\t-\t-\t-\t-\t-\tFAULTED",
          "\t/x\t1²\t4\t6\t-\t-\t0\t40\t-\tONLINE"}

VdevWide == {Printed(l) : l \in SeqsUpTo(VdevLineSet, MaxVdevLines)} \cup {CmdFailed}

VdevHealthSet ==
    {VdevLine("/x", h, "") : h \in HealthSet}
    \cup {VdevLine("/y", "DEGRADED", "\tONLINE"), VdevSummaryLine}

VdevHealth == {Printed(l) : l \in SeqsUpTo(VdevHealthSet, MaxVdevLines)}

VdevNarrow ==
    {Printed(<<VdevSummaryLine, VdevLine("/x", "ONLINE", ""), VdevLine("/y", "ONLINE", "")>>),
     Printed(<<VdevSummaryLine, VdevLine("/x", "ONLINE", ""), VdevLine("/z", "ONLINE", "")>>),
     Printed(<<>>),
     CmdFailed}

VdevOne == {Printed(<<>>)}

VdevBoth == {Printed(<<VdevSummaryLine, VdevLine("/x", "ONLINE", ""), VdevLine("/y", "ONLINE", "")>>)}

\* zpool list -Hpo name,size,allocated,free,fragmentation,capacity,dedupratio,health
PoolLine(name, health) == name \o "\t10\t4\t6\t0\t40\t1.00\t" \o health

PoolHealthSet == {PoolLine("a", h) : h \in HealthSet}

PoolHealth == {Printed(l) : l \in SeqsUpTo(PoolHealthSet, MaxPoolLines)}

PoolNarrow ==
    {Printed(<<PoolLine("a", "ONLINE")>>),
     Printed(<<PoolLine("a", "ONLINE"), PoolLine("b", "ONLINE")>>),
     Printed(<<PoolLine("a", "ONLINE"), PoolLine("a", "DEGRADED")>>),
     Printed(<<PoolLine("a", "ONLINE"), PoolLine("c", "ONLINE")>>),
     Printed(<<"a\t10\t-\t6\t0\t40\t1.00\tONLINE">>),
     Printed(<<>>),
     CmdFailed}

PoolOne == {Printed(<<>>), Printed(<<PoolLine("a", "ONLINE")>>)}

\* /proc/spl/kstat/zfs/<pool>/iostats and the legacy .../io
KstatHeader == "12 1 0x01 1 80 4 5\n"

IostatsFile == File(<<KstatHeader, "trim_extents_written trim_bytes_written\n", "3 4\n">>)
IoFile == File(<<KstatHeader, "nread nwritten reads\n", "7 8 9\n">>)

IoNarrow ==
    {[iostats |-> IostatsFile, io |-> NoFile],
     [iostats |-> NoFile, io |-> IoFile],
     [iostats |-> NoFile, io |-> NoFile]}

IoOne == {[iostats |-> IostatsFile, io |-> NoFile]}

IostatsWide ==
    {IostatsFile, NoFile,
     File(<<KstatHeader, "trim_extents_written trim_bytes_written\n", "3 -\n">>),
     File(<<KstatHeader, "trim_extents_written trim_bytes_written\n", "3 1²\n">>),
     File(<<KstatHeader, "trim_extents_written trim_bytes_written\n">>),
     File(<<KstatHeader, "trim_extents_written trim_bytes_written\n", "\n">>),
     File(<<>>)}

IoWide == {[iostats |-> f, io |-> g] :
              f \in IostatsWide,
              g \in {IoFile, NoFile, File(<<KstatHeader, "nread nwritten reads\n", "7 x\n">>)}}

\* zfs list -Hpo name,avail,used,compressratio,referenced
ZfsNarrow ==
    {Printed(<<"a\t6\t4\t1.00\t4", "a/home\t6\t3\t1.25\t3">>),
     Printed(<<"a\t6\t-\t1.00\t4">>),
     CmdFailed}

ZfsOne == {Printed(<<"a\t6\t4\t1.00\t4">>)}

\* /proc/spl/kstat/zfs/arcstats
ArcLine(name, value) == name \o "    4    " \o value \o "\n"

ArcTail ==
    <<ArcLine("size", "50"), ArcLine("memory_available_bytes", "60"),
      ArcLine("arc_meta_used", "5"), ArcLine("arc_meta_limit", "40"),
      ArcLine("l2_size", "0"), ArcLine("l2_asize", "0"),
      ArcLine("l2_read_bytes", "0"), ArcLine("l2_write_bytes", "0"),
      ArcLine("l2_io_error", "0"), ArcLine("l2_cksum_bad", "0")>>

ArcFile(hits, misses, l2_hits, l2_misses) ==
    File(<<"9 1 0x01 123 33456 5 6\n", "name                    type data\n",
           ArcLine("hits", hits), ArcLine("misses", misses),
           ArcLine("l2_hits", l2_hits), ArcLine("l2_misses", l2_misses)>> \o ArcTail)

CounterTexts == {ToString(n) : n \in 0..MaxCounter} \cup {"-1"}

ArcWide ==
    {ArcFile(h, m, h2, m2) : h \in CounterTexts, m \in CounterTexts,
                             h2 \in CounterTexts, m2 \in CounterTexts}
    \cup {NoFile, File(<<"9 1\n", "name type data\n", ArcLine("hits", "1")>> \o ArcTail)}

ArcNarrow ==
    {ArcFile("80", "20", "0", "0"),
     File(<<"9 1\n", "name type data\n", ArcLine("hits", "1")>> \o ArcTail),
     NoFile}

ArcOne == {ArcFile("80", "20", "0", "0")}

\* /proc/spl/kmem/slab
SlabHeader == <<"--------------------- cache ---------- ----- slab ------\n",
                "name    flags    size    alloc slabsize  objsize\n">>

SlabLineSet ==
    {"kcf_sreq_cache    0x00000    4096    12\n", "zio_cache 0x00040 512 3\n",
     "name    flags    size\n", "spl_vn_cache 0x00020\n", "\n",
     "    zil_lwb_cache  0x00040  7  0\n", "ddt_cache 0x00040 2²\n"}

SlabWide == {File(SlabHeader \o l) : l \in SeqsUpTo(SlabLineSet, MaxSlabLines)} \cup {NoFile}

SlabNarrow ==
    {File(SlabHeader \o <<"kcf_sreq_cache    0x00000    4096    12\n",
                          "zio_cache 0x00040 512 3\n">>),
     File(SlabHeader \o <<"kcf_sreq_cache    0x00000    4096    12\n", "\n">>),
     NoFile}

SlabOne == {File(SlabHeader \o <<"kcf_sreq_cache    0x00000    4096    12\n">>)}

(***************************************************************************)
(* The module-level code (lines 171-181), one action per call.             *)
(***************************************************************************)
Functions == {"pool_status", "vdev_list", "pool_list", "zfs_list", "arc_stats",
              "slab_usage", "pool_io_stats", "run", "read_file"}

Init ==
    /\ pc = "pool_status"
    /\ exc = "none"
    /\ scrub = EmptyDict
    /\ vdev_errors = EmptyDict
    /\ r = EmptyDict
    /\ stdout = <<>>
    /\ status_r = <<>>
    /\ vdev_r = <<>>
    /\ pool_r = <<>>
    /\ io_env = <<>>
    /\ zfs_r = <<>>
    /\ arc_f = NoFile
    /\ arc_r = EmptyDict
    /\ slab_f = NoFile
    /\ opened = <<>>
    /\ calls = [f \in Functions |-> 0]

\* an exception that is swallowed: control goes on
GotoIgnoring(e, next) == next

\* an exception that restarts the collection
GotoRetry(e, next) == IF e = "none" THEN next ELSE "pool_status"

\* where control goes after a call: on, or out with the exception
Goto(e, next) == IF e = "none" THEN next ELSE "exit"

\* line 171
PoolStatus(outs) ==
    /\ pc = "pool_status"
    /\ \E out \in outs :
          LET res == pool_status(out)
          IN /\ status_r' = res.r
             /\ scrub' = res.scrub
             /\ vdev_errors' = res.vdev_errors
             /\ exc' = res.exc
             /\ pc' = Goto(res.exc, "vdev_list")
    /\ calls' = [calls EXCEPT !["pool_status"] = @ + 1, !["run"] = @ + 1]
    /\ UNCHANGED <<r, stdout, vdev_r, pool_r, io_env, zfs_r, arc_f, arc_r, slab_f, opened>>

\* line 174
VdevList(outs) ==
    /\ pc = "vdev_list"
    /\ \E out \in outs :
          LET res == vdev_list(vdev_errors, out)
          IN /\ vdev_r' = res.r
             /\ r' = IF res.exc = "none" THEN Put(r, "vdevs", res.val) ELSE r
             /\ exc' = res.exc
             /\ pc' = Goto(res.exc, "pool_list")
    /\ calls' = [calls EXCEPT !["vdev_list"] = @ + 1, !["run"] = @ + 1]
    /\ UNCHANGED <<scrub, vdev_errors, stdout, status_r, pool_r, io_env, zfs_r, arc_f,
                   arc_r, slab_f, opened>>

\* line 175
PoolList(outs, files) ==
    /\ pc = "pool_list"
    /\ \E out \in outs :
          \E envs \in [1..Len(run(out.lines, "\\t")) -> files] :
             LET res == pool_list(scrub, out, envs)
             IN /\ pool_r' = res.r
                /\ io_env' = SubSeq(envs, 1, res.io_calls)
                /\ opened' = opened \o res.opened
                /\ r' = IF res.exc = "none" THEN Put(r, "pools", res.val) ELSE r
                /\ exc' = res.exc
                /\ pc' = Goto(res.exc, "zfs_list")
                /\ calls' = [calls EXCEPT !["pool_list"] = @ + 1, !["run"] = @ + 1,
                                          !["pool_io_stats"] = @ + res.io_calls,
                                          !["read_file"] = @ + Len(res.opened)]
    /\ UNCHANGED <<scrub, vdev_errors, stdout, status_r, vdev_r, zfs_r, arc_f, arc_r, slab_f>>

\* line 176
ZfsList(outs) ==
    /\ pc = "zfs_list"
    /\ \E out \in outs :
          LET res == zfs_list(out)
          IN /\ zfs_r' = res.r
             /\ r' = IF res.exc = "none" THEN Put(r, "datasets", res.val) ELSE r
             /\ exc' = res.exc
             /\ pc' = Goto(res.exc, "arc_stats")
    /\ calls' = [calls EXCEPT !["zfs_list"] = @ + 1, !["run"] = @ + 1]
    /\ UNCHANGED <<scrub, vdev_errors, stdout, status_r, vdev_r, pool_r, io_env, arc_f,
                   arc_r, slab_f, opened>>

\* line 177
ArcStats(files) ==
    /\ pc = "arc_stats"
    /\ \E f \in files :
          LET res == arc_stats(f)
          IN /\ arc_f' = f
             /\ arc_r' = res.d
             /\ r' = IF res.exc = "none" THEN Put(r, "arc", res.val) ELSE r
             /\ exc' = res.exc
             /\ pc' = Goto(res.exc, "slab_usage")
    /\ opened' = Append(opened, "/proc/spl/kstat/zfs/arcstats")
    /\ calls' = [calls EXCEPT !["arc_stats"] = @ + 1, !["read_file"] = @ + 1]
    /\ UNCHANGED <<scrub, vdev_errors, stdout, status_r, vdev_r, pool_r, io_env, zfs_r,
                   slab_f>>

\* line 178
SlabUsage(files) ==
    /\ pc = "slab_usage"
    /\ \E f \in files :
          LET res == slab_usage(f)
          IN /\ slab_f' = f
             /\ r' = IF res.exc = "none" THEN Put(r, "slab", res.val) ELSE r
             /\ exc' = res.exc
             /\ pc' = Goto(res.exc, "print")
    /\ opened' = Append(opened, "/proc/spl/kmem/slab")
    /\ calls' = [calls EXCEPT !["slab_usage"] = @ + 1, !["read_file"] = @ + 1]
    /\ UNCHANGED <<scrub, vdev_errors, stdout, status_r, vdev_r, pool_r, io_env, zfs_r,
                   arc_f, arc_r>>

\* line 181
PrintJson ==
    /\ pc = "print"
    /\ stdout' = Append(stdout, r)
    /\ pc' = "exit"
    /\ UNCHANGED <<exc, scrub, vdev_errors, r, status_r, vdev_r, pool_r, io_env, zfs_r,
                   arc_f, arc_r, slab_f, opened, calls>>

\* every component meets successes and failures
Next ==
    \/ PoolStatus(StatusNarrow)
    \/ VdevList(VdevNarrow)
    \/ PoolList(PoolNarrow, IoNarrow)
    \/ ZfsList(ZfsNarrow)
    \/ ArcStats(ArcNarrow)
    \/ SlabUsage(SlabNarrow)
    \/ PrintJson

Spec == Init /\ [][Next]_vars

\* any status report of up to MaxStatusLines lines
NextStatus ==
    \/ PoolStatus(StatusWide)
    \/ VdevList(VdevBoth)
    \/ PoolList(PoolOne, IoOne)
    \/ ZfsList(ZfsOne)
    \/ ArcStats(ArcOne)
    \/ SlabUsage(SlabOne)
    \/ PrintJson

SpecStatus == Init /\ [][NextStatus]_vars

\* any device listing of up to MaxVdevLines lines
NextVdev ==
    \/ PoolStatus(StatusNarrow)
    \/ VdevList(VdevWide)
    \/ PoolList(PoolOne, IoOne)
    \/ ZfsList(ZfsOne)
    \/ ArcStats(ArcOne)
    \/ SlabUsage(SlabOne)
    \/ PrintJson

SpecVdev == Init /\ [][NextVdev]_vars

\* any health string in the device and pool listings
NextOnline ==
    \/ PoolStatus({StatusHealthy})
    \/ VdevList(VdevHealth)
    \/ PoolList(PoolHealth, IoOne)
    \/ ZfsList(ZfsOne)
    \/ ArcStats(ArcOne)
    \/ SlabUsage(SlabOne)
    \/ PrintJson

SpecOnline == Init /\ [][NextOnline]_vars

\* any pair of pool stat files
NextIo ==
    \/ PoolStatus({StatusHealthy})
    \/ VdevList(VdevOne)
    \/ PoolList(PoolNarrow, IoWide)
    \/ ZfsList(ZfsOne)
    \/ ArcStats(ArcNarrow)
    \/ SlabUsage(SlabNarrow)
    \/ PrintJson

SpecIo == Init /\ [][NextIo]_vars

\* any slab file of up to MaxSlabLines rows
NextKstat ==
    \/ PoolStatus({StatusHealthy})
    \/ VdevList(VdevOne)
    \/ PoolList(PoolOne, IoOne)
    \/ ZfsList(ZfsOne)
    \/ ArcStats(ArcOne)
    \/ SlabUsage(SlabWide)
    \/ PrintJson

SpecKstat == Init /\ [][NextKstat]_vars

\* any four hit and miss counters up to MaxCounter
NextArc ==
    \/ PoolStatus({StatusHealthy})
    \/ VdevList(VdevOne)
    \/ PoolList(PoolOne, IoOne)
    \/ ZfsList(ZfsOne)
    \/ ArcStats(ArcWide)
    \/ SlabUsage(SlabOne)
    \/ PrintJson

SpecArc == Init /\ [][NextArc]_vars

(***************************************************************************)
(* Properties of pool_status, over the rows it read (status_r).            *)
(***************************************************************************)
StatusReturned == pc = "vdev_list" \/ calls["vdev_list"] > 0

\* rows whose first field is "pool:"
DeclRows == {i \in 1..Len(status_r) : status_r[i][1] = "pool:"}

\* rows "scan:" whose next three fields are "scrub", "in", "progress"
ScanRows ==
    {j \in 1..Len(status_r) :
        /\ Len(status_r[j]) >= 4
        /\ status_r[j][1] = "scan:"
        /\ status_r[j][2] = "scrub"
        /\ status_r[j][3] = "in"
        /\ status_r[j][4] = "progress"}

\* row j lies after the "pool:" row d and before the next "pool:" row
InScope(d, j) == d < j /\ \A k \in DeclRows : ~(d < k /\ k < j)

DeclaredNames == {status_r[d][2] : d \in DeclRows}

Declaring(P) == {d \in DeclRows : status_r[d][2] = P}

LastDeclaring(P) == CHOOSE d \in Declaring(P) : \A e \in Declaring(P) : e <= d

\* C1 as stated: every declared pool P has a boolean scrub flag, true iff a
\* "scan: scrub in progress" row lies in a scope of P (after a "pool:" row of
\* P and before the next "pool:" row).
C1_AnyScope ==
    StatusReturned =>
        \A P \in DeclaredNames :
            /\ P \in DOMAIN scrub
            /\ scrub[P] \in BOOLEAN
            /\ scrub[P] <=> \E d \in Declaring(P) : \E j \in ScanRows : InScope(d, j)

\* C1 amended: every declared pool P has a boolean scrub flag, true iff a
\* "scan: scrub in progress" row lies in the scope of the last "pool:" row
\* that declares P; scan rows of other scopes never change it.
C1_LastScope ==
    StatusReturned =>
        \A P \in DeclaredNames :
            /\ P \in DOMAIN scrub
            /\ scrub[P] \in BOOLEAN
            /\ scrub[P] <=> \E j \in ScanRows : InScope(LastDeclaring(P), j)

\* two pools were declared, one scrubbing and one not
C1_Witness ==
    /\ StatusReturned
    /\ \E P \in DeclaredNames : \E Q \in DeclaredNames :
          /\ P # Q
          /\ scrub[P] /\ ~scrub[Q]
          /\ \E j \in ScanRows : InScope(LastDeclaring(P), j) /\ LastDeclaring(Q) < j

\* rows pool_status recognises as device rows
DeviceRows ==
    {i \in 1..Len(status_r) : Len(status_r[i]) >= 5 /\ Char(status_r[i][1], 1) = "/"}

AllParse(x) == ~int_raises(x[3]) /\ ~int_raises(x[4]) /\ ~int_raises(x[5])

\* C9: every recognised device row has an error record under its path whose
\* counters are non-negative integers: the parsed fields 3-5 when all three
\* parse, all zero when one does not.
C9_ErrorRecords ==
    StatusReturned =>
        \A i \in DeviceRows :
            LET x == status_r[i]
            IN /\ x[1] \in DOMAIN vdev_errors
               /\ vdev_errors[x[1]].read >= 0
               /\ vdev_errors[x[1]].write >= 0
               /\ vdev_errors[x[1]].cksum >= 0
               /\ AllParse(x) =>
                     vdev_errors[x[1]] =
                        [read |-> int(x[3]), write |-> int(x[4]), cksum |-> int(x[5])]
               /\ ~AllParse(x) =>
                     vdev_errors[x[1]] = [read |-> 0, write |-> 0, cksum |-> 0]

\* C10: the keys of the scrub map are exactly the names "pool:" rows declare.
C10_ScrubKeys == StatusReturned => DOMAIN scrub = DeclaredNames

(***************************************************************************)
(* Properties of the listing builders, over the rows they read.            *)
(***************************************************************************)
VdevListCalled == calls["vdev_list"] > 0

\* first fields of the device-listing rows that begin with "/"
ListedPaths ==
    {vdev_r[i][1] : i \in {k \in 1..Len(vdev_r) : Char(vdev_r[k][1], 1) = "/"}}

Correlated(vdevs) ==
    \A p \in ListedPaths :
        /\ p \in DOMAIN vdevs
        /\ p \in DOMAIN vdev_errors
        /\ vdevs[p].errors = vdev_errors[p]
        /\ DOMAIN vdevs[p].errors = {"read", "write", "cksum"}

\* C2: every listed device path is a key of the vdevs map with the error
\* record pool_status produced for that path, in the dict being built and in
\* the emitted document; a listed path absent from the error map makes
\* vdev_list fail, and nothing is emitted.
C2_DeviceCorrelation ==
    VdevListCalled =>
        /\ "vdevs" \in DOMAIN r => Correlated(r["vdevs"])
        /\ stdout # <<>> => Correlated(stdout[1]["vdevs"])
        /\ (\E p \in ListedPaths : p \notin DOMAIN vdev_errors) =>
              /\ exc # "none"
              /\ pc = "exit"
              /\ "vdevs" \notin DOMAIN r
              /\ stdout = <<>>

\* a document was emitted whose device /y carries the write errors reported
C2_Witness ==
    /\ stdout # <<>>
    /\ "/y" \in ListedPaths
    /\ stdout[1]["vdevs"]["/y"].errors.write = 2

\* the last row of a listing whose first field is name
LastRow(rows, name) ==
    rows[CHOOSE i \in 1..Len(rows) :
            /\ rows[i][1] = name
            /\ \A j \in 1..Len(rows) : rows[j][1] = name => j <= i]

HasField(x, k, text) == Len(x) >= k + 1 /\ x[k + 1] = text

PoolsOnlineAt(k) ==
    "pools" \in DOMAIN r =>
        \A n \in DOMAIN r["pools"] :
            r["pools"][n].online = 1 <=> HasField(LastRow(pool_r, n), k, "ONLINE")

VdevsOnlineAt(k) ==
    "vdevs" \in DOMAIN r =>
        \A n \in DOMAIN r["vdevs"] :
            r["vdevs"][n].online = 1 <=> HasField(LastRow(vdev_r, n), k, "ONLINE")

\* C6 as stated: online is set iff the health string is exactly "ONLINE", the
\* health string being the 8th field of a pool row and, in a device row, the
\* field after path, size, allocated, free, three ignored fields,
\* fragmentation, usage and one ignored field (x[10]).
C6_HealthAfterThreeIgnored == PoolsOnlineAt(7) /\ VdevsOnlineAt(10)

\* C6 amended: the same with the device row's health string after two
\* ignored fields, that is its 10th field (x[9]).
C6_HealthTenthField == PoolsOnlineAt(7) /\ VdevsOnlineAt(9)

\* a document with a pool whose health is "online" and a device whose 10th
\* field is DEGRADED and 11th is ONLINE, both not online, and a device online
C6_Witness ==
    /\ stdout # <<>>
    /\ \E n \in DOMAIN r["pools"] :
          r["pools"][n].online = 0 /\ LastRow(pool_r, n)[8] = "online"
    /\ \E n \in DOMAIN r["vdevs"] :
          /\ r["vdevs"][n].online = 0
          /\ HasField(LastRow(vdev_r, n), 10, "ONLINE")
    /\ \E n \in DOMAIN r["vdevs"] : r["vdevs"][n].online = 1

(***************************************************************************)
(* Properties of the run as a whole.                                       *)
(***************************************************************************)
Builders == {"pool_status", "vdev_list", "pool_list", "zfs_list", "arc_stats", "slab_usage"}

SnapshotKeys == {"vdevs", "pools", "datasets", "arc", "slab"}

\* what the inputs read so far show to be fatal
PoolMissingFromScrub == \E i \in 1..Len(pool_r) : pool_r[i][1] \notin DOMAIN scrub
DeviceMissingFromErrors == \E p \in ListedPaths : p \notin DOMAIN vdev_errors
StatFileMissing ==
    \/ calls["arc_stats"] > 0 /\ ~arc_f.exists
    \/ calls["slab_usage"] > 0 /\ ~slab_f.exists
    \/ \E i \in 1..Len(io_env) : ~io_env[i].iostats.exists /\ ~io_env[i].io.exists
ArcKeyMissing ==
    /\ arc_f.exists
    /\ \E k \in {"hits", "misses", "l2_hits", "l2_misses", "size"} :
          \A i \in 1..Len(arc_f.lines) : ~startswith(arc_f.lines[i], k \o " ")

\* C3: a failed component means nothing is printed; a run without failure
\* prints exactly one document, after all five entries were computed.
C3_NoPartialSnapshot ==
    /\ Len(stdout) <= 1
    /\ exc # "none" => stdout = <<>> /\ pc = "exit"
    /\ (PoolMissingFromScrub \/ DeviceMissingFromErrors \/ StatFileMissing \/ ArcKeyMissing)
          => stdout = <<>> /\ pc = "exit" /\ exc # "none"
    /\ pc = "exit" /\ exc = "none" => Len(stdout) = 1
    /\ stdout # <<>> =>
          /\ DOMAIN r = SnapshotKeys
          /\ stdout[1] = r
          /\ \A f \in Builders : calls[f] = 1
    /\ pc # "exit" => stdout = <<>>

\* one document was printed, holding two devices and two pools
C3_Witness ==
    /\ pc = "exit"
    /\ Len(stdout) = 1
    /\ Cardinality(DOMAIN stdout[1]["vdevs"]) = 2
    /\ Cardinality(DOMAIN stdout[1]["pools"]) = 2

\* C7 as stated: no component is invoked more than once.
C7_EveryComponentOnce == \A f \in Functions : calls[f] <= 1

CallOrder == <<"pool_status", "vdev_list", "pool_list", "zfs_list", "arc_stats", "slab_usage">>

\* C7 amended: each of the six components the module-level code calls is
\* invoked at most once and in order, pool_status exactly once and before
\* vdev_list and pool_list, all six exactly once in a run that prints;
\* pool_io_stats is invoked once per pool-listing row reached, run once per
\* listing, read_file once per file opened.
C7_BuildersOnce ==
    /\ \A f \in Builders : calls[f] <= 1
    /\ pc # "pool_status" => calls["pool_status"] = 1
    /\ \A i \in 1..5 : calls[CallOrder[i + 1]] <= calls[CallOrder[i]]
    /\ calls["vdev_list"] = 1 => StatusReturned
    /\ stdout # <<>> => \A f \in Builders : calls[f] = 1
    /\ calls["pool_io_stats"] <= Len(pool_r)
    /\ "pools" \in DOMAIN r => calls["pool_io_stats"] = Len(pool_r)
    /\ calls["run"] = calls["pool_status"] + calls["vdev_list"] + calls["pool_list"]
                         + calls["zfs_list"]
    /\ calls["read_file"] = Len(opened)

\* a run that printed after two pool_io_stats calls
C7_Witness ==
    /\ stdout # <<>>
    /\ calls["pool_io_stats"] = 2
    /\ calls["run"] = 4

(***************************************************************************)
(* Properties of the stat-file readers.                                    *)
(***************************************************************************)
\* the open() calls the i-th pool_io_stats call must make
FallbackOpens(i) ==
    IF io_env[i].iostats.exists
    THEN <<kstat_path(pool_r[i][1], "iostats")>>
    ELSE <<kstat_path(pool_r[i][1], "iostats"), kstat_path(pool_r[i][1], "io")>>

RECURSIVE PoolOpens(_)
PoolOpens(n) == IF n = 0 THEN <<>> ELSE PoolOpens(n - 1) \o FallbackOpens(n)

OtherOpens ==
    (IF calls["arc_stats"] > 0 THEN <<"/proc/spl/kstat/zfs/arcstats">> ELSE <<>>)
    \o (IF calls["slab_usage"] > 0 THEN <<"/proc/spl/kmem/slab">> ELSE <<>>)

\* the first field of every line after the header line
CounterNames(file) ==
    {re_split("\\s+", file.lines[2])[i] : i \in 1..Len(re_split("\\s+", file.lines[2]))}

\* C8: pool_io_stats opens iostats first and io only when iostats failed; the
\* file that was read decides the counters; two failures abort the run; the
\* arcstats and slab files are opened once, under one name.
C8_FallbackOrder ==
    /\ opened = PoolOpens(Len(io_env)) \o OtherOpens
    /\ (\E i \in 1..Len(io_env) : ~io_env[i].iostats.exists /\ ~io_env[i].io.exists) =>
          /\ exc = "FileNotFoundError"
          /\ pc = "exit"
          /\ "pools" \notin DOMAIN r
          /\ stdout = <<>>
    /\ "pools" \in DOMAIN r =>
          \A i \in 1..Len(io_env) :
              (\A j \in 1..Len(io_env) : pool_r[j][1] = pool_r[i][1] => j <= i) =>
                  LET used == IF io_env[i].iostats.exists THEN io_env[i].iostats
                              ELSE io_env[i].io
                      io == r["pools"][pool_r[i][1]].io
                  IN /\ DOMAIN io \subseteq CounterNames(used)
                     /\ used = IostatsFile =>
                           io = [k \in {"trim_extents_written", "trim_bytes_written"} |->
                                    IF k = "trim_extents_written" THEN 3 ELSE 4]
                     /\ used = IoFile => io = [nread |-> 7, nwritten |-> 8, reads |-> 9]

\* a document was printed after one pool fell back to the legacy file
C8_Witness ==
    /\ stdout # <<>>
    /\ \E i \in 1..Len(io_env) :
          /\ ~io_env[i].iostats.exists
          /\ io_env[i].io.exists
          /\ r["pools"][pool_r[i][1]].io = [nread |-> 7, nwritten |-> 8, reads |-> 9]
    /\ \E i \in 1..Len(opened) : opened[i] = "/proc/spl/kstat/zfs/a/io"

\* the third fields of the slab rows that are decimal numbers
RECURSIVE NumericThirdSum(_, _)
NumericThirdSum(rows, i) ==
    IF i > Len(rows) THEN 0
    ELSE (IF Len(rows[i]) >= 3 /\ AllDecimal(rows[i][3]) THEN DecVal(rows[i][3]) ELSE 0)
         + NumericThirdSum(rows, i + 1)

\* C4: whatever rows a stat file that exists holds, a field that is not a
\* number never aborts: slab_usage returns the sum of the numeric third
\* fields, and pool_io_stats returns a mapping.
C4_CoercionNeverAborts ==
    /\ calls["slab_usage"] > 0 /\ slab_f.exists =>
          /\ "slab" \in DOMAIN r
          /\ r["slab"] = NumericThirdSum(read_file(slab_f.lines, 2), 1)
    /\ calls["pool_list"] > 0 /\ Len(pool_r) > 0 /\ Len(io_env) = Len(pool_r)
       /\ (\A i \in 1..Len(io_env) : io_env[i].iostats.exists \/ io_env[i].io.exists)
          => "pools" \in DOMAIN r

\* the arcstats counters arc_stats parsed
ArcCounters == arc_r

InPercentRange(rate) == rate.den > 0 /\ 0 <= rate.num /\ rate.num <= 100 * rate.den

TierRates ==
    <<[rate |-> r["arc"].l1.hitrate, hit |-> ArcCounters["hits"],
       miss |-> ArcCounters["misses"]],
      [rate |-> r["arc"].l2.hitrate, hit |-> ArcCounters["l2_hits"],
       miss |-> ArcCounters["l2_misses"]]>>

\* C5 as stated: with non-negative counters each tier's hit rate lies in
\* [0, 100], nothing is divided by zero, and the rate is 0 exactly when the
\* hit and the miss counter are both 0.
C5_ZeroIffBothZero ==
    "arc" \in DOMAIN r =>
        \A t \in 1..2 :
            LET tier == TierRates[t]
            IN tier.hit >= 0 /\ tier.miss >= 0 =>
                  /\ InPercentRange(tier.rate)
                  /\ tier.rate.num = 0 <=> (tier.hit = 0 /\ tier.miss = 0)

\* C5 amended: the rate is 0 exactly when the hit counter is 0.
C5_ZeroIffNoHits ==
    "arc" \in DOMAIN r =>
        \A t \in 1..2 :
            LET tier == TierRates[t]
            IN /\ tier.rate.den # 0
               /\ tier.hit >= 0 /\ tier.miss >= 0 =>
                     /\ InPercentRange(tier.rate)
                     /\ tier.rate.num = 0 <=> tier.hit = 0

\* tier 1 saw only misses and tier 2 saw hits and misses
C5_Witness ==
    /\ "arc" \in DOMAIN r
    /\ ArcCounters["hits"] = 0 /\ ArcCounters["misses"] > 0
    /\ r["arc"].l1.hitrate.num = 0
    /\ ArcCounters["l2_hits"] > 0 /\ ArcCounters["l2_misses"] > 0
    /\ r["arc"].l2.hitrate.num > 0

====
